---- MODULE Spec2Model ----
(***************************************************************************)
(* Model of seaice/core/tool.py: discretize_profile, s_nan and            *)
(* set_vertical_reference.                                                 *)
(*                                                                         *)
(* Depths are exact fixed-point integers: one model unit is 1e-6/32, so    *)
(* TOL (1e-6) is 32 units.  Every depth handed to the program is a         *)
(* multiple of 16 units, which keeps each halving the code performs        *)
(* (y_mid of a row, np.diff/2, the integrity repair, the y_mid of an       *)
(* output row) exact.  Measured values are exact rationals [n, d] with     *)
(* d > 0; NaN is the record with d = 0, and every arithmetic operation     *)
(* with a NaN operand yields NaN, as in IEEE arithmetic.                   *)
(***************************************************************************)
EXTENDS Integers, Sequences, FiniteSets, TLC

\* ------------------------------------------------------------------------
\* Bounds of the model
\* ------------------------------------------------------------------------
MaxRows == 4
MaxEdges == 4
\* the calls of set_vertical_reference made on one profile
MaxCalls == 2

\* ------------------------------------------------------------------------
\* Program constant and depth lattice
\* ------------------------------------------------------------------------
TOL == 32
Eps == TOL \div 2
U == 8 * TOL
H == U \div 2
NoDepth == 0 - (1000 * U)

\* ------------------------------------------------------------------------
\* Exact arithmetic on values (float with NaN)
\* ------------------------------------------------------------------------
Abs(x) == IF x < 0 THEN 0 - x ELSE x

RECURSIVE GCD(_, _)
GCD(a, b) == IF b = 0 THEN a ELSE GCD(b, a % b)

NaN == [n |-> 0, d |-> 0]
IsNaN(r) == r.d = 0
Rat(n, d) ==
    LET g == GCD(Abs(n), Abs(d))
        s == IF d < 0 THEN 0 - 1 ELSE 1
    IN  [n |-> s * (n \div g), d |-> s * (d \div g)]
FInt(k) == [n |-> k, d |-> 1]
FAdd(a, b) == IF IsNaN(a) \/ IsNaN(b) THEN NaN ELSE Rat(a.n * b.d + b.n * a.d, a.d * b.d)
FSub(a, b) == IF IsNaN(a) \/ IsNaN(b) THEN NaN ELSE Rat(a.n * b.d - b.n * a.d, a.d * b.d)
FMulInt(k, a) == IF IsNaN(a) THEN NaN ELSE Rat(k * a.n, a.d)
FDivInt(a, k) == IF IsNaN(a) THEN NaN ELSE Rat(a.n, a.d * k)
FLeq(a, b) == a.n * b.d <= b.n * a.d

\* ------------------------------------------------------------------------
\* Sequences of depths
\* ------------------------------------------------------------------------
Range(s) == {s[i] : i \in DOMAIN s}
SetMin(S) == CHOOSE x \in S : \A y \in S : x <= y
SetMax(S) == CHOOSE x \in S : \A y \in S : x >= y
SeqMin(s) == SetMin(Range(s))
SeqMax(s) == SetMax(Range(s))

RECURSIVE SortedUnique(_)
SortedUnique(S) ==
    IF S = {} THEN <<>> ELSE LET m == SetMin(S) IN <<m>> \o SortedUnique(S \ {m})

RECURSIVE Insert(_, _)
Insert(x, s) ==
    IF s = <<>> THEN <<x>>
    ELSE IF x < Head(s) THEN <<x>> \o s
    ELSE <<Head(s)>> \o Insert(x, Tail(s))

RECURSIVE SortValues(_)
SortValues(s) == IF s = <<>> THEN <<>> ELSE Insert(s[Len(s)], SortValues(SubSeq(s, 1, Len(s) - 1)))

Diff(s) == [i \in 1..(Len(s) - 1) |-> s[i + 1] - s[i]]
Half(x) == x \div 2

\* an optional argument: None, or a sequence
None == [none |-> TRUE, v |-> <<>>]
Some(s) == [none |-> FALSE, v |-> s]

\* ------------------------------------------------------------------------
\* The profile: rows [variable, y_low, y_mid, y_sup, val]; a continuous row
\* has y_low = y_sup = NoDepth (null)
\* ------------------------------------------------------------------------
VARIABLES profile, v_ref, arg_y_bins, arg_y_mid, variables, fill_gap,
          pc, err, y_bins, y_mid, vi, yx, ii_bin, ii_yx, x_step, y_step, S, L,
          discretized_profile, returned, sv_profile, sv_calls

vars == <<profile, v_ref, arg_y_bins, arg_y_mid, variables, fill_gap,
          pc, err, y_bins, y_mid, vi, yx, ii_bin, ii_yx, x_step, y_step, S, L,
          discretized_profile, returned, sv_profile, sv_calls>>

inputs == <<profile, v_ref, arg_y_bins, arg_y_mid, variables, fill_gap>>
\* the state of a call of discretize_profile
dp_vars == <<inputs, pc, err, y_bins, y_mid, vi, yx, ii_bin, ii_yx, x_step, y_step, S, L,
             discretized_profile, returned>>
\* the profile handed to set_vertical_reference and the calls made on it
sv_vars == <<sv_profile, sv_calls>>

DropNa(S0) == S0 \ {NoDepth}
ColLow(p) == {p[i].y_low : i \in DOMAIN p}
ColMid(p) == {p[i].y_mid : i \in DOMAIN p}
ColSup(p) == {p[i].y_sup : i \in DOMAIN p}

\* ------------------------------------------------------------------------
\* Grid resolution, lines 46-61: the pair (y_bins, y_mid) before the
\* integrity check, or the exception an index or min() raises
\* ------------------------------------------------------------------------
Raise(e) == [err |-> e, y_bins |-> <<>>, y_mid |-> <<>>]
Grid(b, m) == [err |-> "none", y_bins |-> b, y_mid |-> m]

BinsFromMid(m) ==
    LET dy == [i \in 1..(Len(m) - 1) |-> Half(m[i + 1] - m[i])]
        b  == <<m[1] - dy[1]>> \o [i \in 1..(Len(m) - 1) |-> m[i] + dy[i]]
                \o <<m[Len(m)] + dy[Len(dy)]>>
    IN  IF b[1] < 0 THEN [b EXCEPT ![1] = 0] ELSE b

\* the centers taken at the upper edge of each bin
MidFromBins_upper(b) == [i \in 1..(Len(b) - 1) |-> Diff(b)[i] + b[i]]

MidFromBins(b) == [i \in 1..(Len(b) - 1) |-> Half(Diff(b)[i]) + b[i]]

VariablesCheck(p, yb, ym) ==
    IF yb.none /\ ym.none
    THEN Grid(SortedUnique(DropNa(ColLow(p)) \cup DropNa(ColSup(p))),
              SortedUnique(DropNa(ColMid(p))))
    ELSE IF yb.none
    THEN LET m == SortValues(ym.v)
         IN  IF Len(m) < 2 THEN Raise("IndexError") ELSE Grid(BinsFromMid(m), m)
    ELSE IF ym.none
    THEN Grid(yb.v, MidFromBins(yb.v))
    ELSE Grid(yb.v, ym.v)

\* lines 63-71: the integrity check of y_bins against y_mid
LowerRepair(p, b, m) ==
    IF SeqMin(m) - SeqMin(b) < TOL
    THEN LET y_bin_min == SeqMin(m) - Half(SeqMin(b) - SeqMin(m))
         IN  IF y_bin_min >= 0 THEN <<y_bin_min>> \o b ELSE <<SetMin(ColMid(p))>> \o b
    ELSE b

UpperRepair(p, b, m) ==
    IF SetMax(ColMid(p)) - SeqMax(b) <= TOL
    THEN <<SeqMax(m) + Half(SeqMax(b) - SeqMax(m))>> \o b
    ELSE b

CheckIntegrity(p, b, m) ==
    IF Len(m) = 0 \/ Len(b) = 0 THEN Raise("ValueError")
    ELSE Grid(UpperRepair(p, LowerRepair(p, b, m), m), m)

\* ------------------------------------------------------------------------
\* Inputs
\* ------------------------------------------------------------------------
Vals == {NaN, FInt(1), FInt(3)}
SourcePts == {0, U, 2 * U, 3 * U}
GridPts == {0, H, U, U + Eps, 3 * H, 2 * U, 3 * U}
CenterPts == {H, U, 3 * H, 2 * U, 5 * H}
SamplePts == {0, U, U + Eps, 2 * U}

AscSeqs(P, lo, hi) ==
    {SortedUnique(T) : T \in {T0 \in SUBSET P : Cardinality(T0) >= lo /\ Cardinality(T0) <= hi}}

RECURSIVE Geoms(_, _)
Geoms(n, from) ==
    IF n = 0 THEN {<<>>}
    ELSE UNION {UNION {{<<[lo |-> a, hi |-> b]>> \o g : g \in Geoms(n - 1, b)}
                       : b \in {q \in SourcePts : q > a}}
                : a \in {q \in SourcePts : q >= from}}

StepRow(iv, v) ==
    [variable |-> "salinity", y_low |-> iv.lo, y_mid |-> Half(iv.lo + iv.hi),
     y_sup |-> iv.hi, val |-> v]
\* the profiles of intervals between the source points, with or without gaps
\* between them, and the profiles of MaxRows sections of one unit each
Contiguous == [i \in 1..MaxRows |-> [lo |-> (i - 1) * U, hi |-> i * U]]
StepProfiles ==
    UNION {UNION {{[i \in 1..n |-> StepRow(g[i], vs[i])] : vs \in [1..n -> Vals]}
                  : g \in Geoms(n, 0)}
           : n \in 1..(Cardinality(SourcePts) - 1)}
    \cup {[i \in 1..MaxRows |-> StepRow(Contiguous[i], vs[i])] : vs \in [1..MaxRows -> Vals]}

RECURSIVE Samples(_, _)
Samples(n, from) ==
    IF n = 0 THEN {<<>>}
    ELSE UNION {{<<a>> \o g : g \in Samples(n - 1, a)} : a \in {q \in SamplePts : q >= from}}

ContRow(y, v) ==
    [variable |-> "temperature", y_low |-> NoDepth, y_mid |-> y, y_sup |-> NoDepth, val |-> v]
ContProfiles ==
    UNION {UNION {{[i \in 1..n |-> ContRow(g[i], vs[i])] : vs \in [1..n -> Vals]}
                  : g \in Samples(n, 0)}
           : n \in 1..(Cardinality(SamplePts) - 1)}

\* the metadata columns of a row: the name of the core, the same on every row,
\* and a comment, which differs from row to row
Tagged(p) ==
    [i \in DOMAIN p |->
        [variable |-> p[i].variable, y_low |-> p[i].y_low, y_mid |-> p[i].y_mid,
         y_sup |-> p[i].y_sup, val |-> p[i].val, name |-> "core", comment |-> i]]

EdgeArgs == {Some(e) : e \in AscSeqs(GridPts, 2, MaxEdges)}
CenterArgs == {Some(c) : c \in AscSeqs(CenterPts, 2, MaxEdges - 1)}
BothArgs ==
    {<<Some(e), Some(c)>> : e \in AscSeqs(SourcePts, 2, 2), c \in AscSeqs({H, 3 * H, 5 * H}, 2, 2)}
GridArgs ==
    {<<None, None>>} \cup {<<e, None>> : e \in EdgeArgs}
    \cup {<<None, c>> : c \in CenterArgs} \cup BothArgs

InitLocals ==
    /\ pc = "start"
    /\ err = "none"
    /\ y_bins = <<>>
    /\ y_mid = <<>>
    /\ vi = 1
    /\ yx = <<>>
    /\ ii_bin = 0
    /\ ii_yx = 0
    /\ x_step = <<>>
    /\ y_step = <<>>
    /\ S = NaN
    /\ L = 0
    /\ discretized_profile = <<>>
    /\ returned = "nothing"
    /\ sv_profile = <<>>
    /\ sv_calls = <<>>

InitStep ==
    /\ profile \in {Tagged(p) : p \in StepProfiles}
    /\ v_ref \in {"top", "bottom"}
    /\ \E a \in GridArgs : arg_y_bins = a[1] /\ arg_y_mid = a[2]
    /\ variables = <<"salinity">>
    /\ fill_gap \in BOOLEAN
    /\ v_ref = "bottom" => arg_y_bins.none /\ arg_y_mid.none

InitCont ==
    /\ profile \in {Tagged(p) : p \in ContProfiles}
    /\ v_ref = "top"
    /\ \E a \in {<<None, None>>} \cup {<<None, c>> : c \in CenterArgs} :
           arg_y_bins = a[1] /\ arg_y_mid = a[2]
    /\ variables = <<"temperature">>
    /\ fill_gap = TRUE

\* a salinity profile with the air temperature recorded above the surface
AirRow == ContRow(0 - U, FInt(1))
MixedProfiles == {<<AirRow>> \o p : p \in StepProfiles}
MixedArgs ==
    {<<None, None>>} \cup {<<None, Some(c)>> : c \in AscSeqs({0 - H, H, 3 * H, 5 * H}, 2, MaxEdges - 1)}

InitMixed ==
    /\ profile \in {Tagged(p) : p \in MixedProfiles}
    /\ v_ref = "top"
    /\ \E a \in MixedArgs : arg_y_bins = a[1] /\ arg_y_mid = a[2]
    /\ variables \in {<<"salinity">>, <<"temperature", "salinity">>}
    /\ fill_gap \in BOOLEAN

\* a profile with a missing section: three sections of one unit, the second
\* one unit above the first, on grids with edges inside the gap
GappedGeom == <<[lo |-> 0, hi |-> U], [lo |-> 2 * U, hi |-> 3 * U], [lo |-> 3 * U, hi |-> 4 * U]>>
GappedProfiles == {[i \in 1..3 |-> StepRow(GappedGeom[i], vs[i])] : vs \in [1..3 -> Vals]}
GappedArgs == {<<Some(e), None>> : e \in AscSeqs({0, U, 3 * H, 2 * U, 3 * U + H \div 2}, 2, MaxEdges)}

InitGapped ==
    /\ profile \in {Tagged(p) : p \in GappedProfiles}
    /\ v_ref = "top"
    /\ \E a \in GappedArgs : arg_y_bins = a[1] /\ arg_y_mid = a[2]
    /\ variables = <<"salinity">>
    /\ fill_gap \in BOOLEAN

\* a profile that has the shape of a discretized one, each section starting
\* where the one before ends, on the grid of its own edges and centers
IsGridLike(p) == \A i \in 1..(Len(p) - 1) : p[i].y_sup = p[i + 1].y_low
OwnEdges(p) == <<p[1].y_low>> \o [i \in DOMAIN p |-> p[i].y_sup]
OwnCenters(p) == [i \in DOMAIN p |-> p[i].y_mid]
OwnProfiles == {p \in StepProfiles : IsGridLike(p)}

InitOwn ==
    /\ profile \in {Tagged(p) : p \in OwnProfiles}
    /\ v_ref = "top"
    /\ arg_y_bins = Some(OwnEdges(profile))
    /\ arg_y_mid = Some(OwnCenters(profile))
    /\ variables = <<"salinity">>
    /\ fill_gap \in BOOLEAN

\* a profile asked for a variable it has no row of: a salinity profile asked
\* for the temperature, a temperature profile asked for the salinity.  A
\* variable is looked up through the rows that carry its name (line 91), its
\* column being read only once such rows are found
AbsentLists == {<<"temperature", "salinity">>, <<"salinity", "temperature">>}
InitAbsent ==
    /\ v_ref = "top"
    /\ fill_gap \in BOOLEAN
    /\ \/ /\ profile \in {Tagged(p) : p \in GappedProfiles}
          /\ \E a \in GappedArgs : arg_y_bins = a[1] /\ arg_y_mid = a[2]
          /\ variables \in AbsentLists \cup {<<"temperature">>}
       \/ /\ profile \in {Tagged(p) : p \in {q \in ContProfiles : Len(q) <= 2}}
          /\ \E a \in {<<None, c>> : c \in CenterArgs} : arg_y_bins = a[1] /\ arg_y_mid = a[2]
          /\ variables \in AbsentLists

\* step profiles whose rows store the greater depth in y_low
Reversed(p) == [i \in DOMAIN p |-> [p[i] EXCEPT !.y_low = p[i].y_sup, !.y_sup = p[i].y_low]]
InitReversed ==
    /\ profile \in {Tagged(Reversed(p)) : p \in {q \in StepProfiles : Len(q) <= 2}}
    /\ v_ref \in {"top", "bottom"}
    /\ arg_y_bins = None
    /\ arg_y_mid = None
    /\ variables = <<"salinity">>
    /\ fill_gap \in BOOLEAN

\* a profile without rows
InitEmpty ==
    /\ profile = <<>>
    /\ v_ref = "top"
    /\ \E a \in {<<None, None>>} \cup BothArgs : arg_y_bins = a[1] /\ arg_y_mid = a[2]
    /\ variables = <<"salinity">>
    /\ fill_gap \in BOOLEAN

Init ==
    /\ InitStep \/ InitCont \/ InitMixed \/ InitGapped \/ InitOwn \/ InitEmpty \/ InitAbsent
          \/ InitReversed
    /\ InitLocals

\* ------------------------------------------------------------------------
\* discretize_profile, lines 41-42: an empty profile is handed back
\* ------------------------------------------------------------------------
Empty ==
    /\ pc = "start"
    /\ profile = <<>>
    /\ pc' = "done"
    /\ returned' = "profile"
    /\ UNCHANGED <<inputs, sv_vars, err, y_bins, y_mid, vi, yx, ii_bin, ii_yx, x_step, y_step,
                   S, L, discretized_profile>>


\* ------------------------------------------------------------------------
\* discretize_profile, lines 44-61: the VARIABLES CHECK
\* ------------------------------------------------------------------------
Resolve ==
    /\ pc = "start"
    /\ profile # <<>>
    /\ LET g == VariablesCheck(profile, arg_y_bins, arg_y_mid)
       IN  /\ err' = g.err
           /\ y_bins' = g.y_bins
           /\ y_mid' = g.y_mid
           /\ pc' = IF g.err = "none" THEN "integrity" ELSE "raised"
    /\ UNCHANGED <<inputs, returned, sv_vars, vi, yx, ii_bin, ii_yx, x_step, y_step, S, L, discretized_profile>>

\* lines 63-74: the integrity check of the grid
Integrity ==
    /\ pc = "integrity"
    /\ LET g == CheckIntegrity(profile, y_bins, y_mid)
       IN  /\ err' = g.err
           /\ y_bins' = g.y_bins
           /\ y_mid' = g.y_mid
           /\ pc' = IF g.err = "none" THEN "variable" ELSE "raised"
    /\ UNCHANGED <<inputs, returned, sv_vars, vi, yx, ii_bin, ii_yx, x_step, y_step, S, L, discretized_profile>>

\* ------------------------------------------------------------------------
\* Python indexing: indices start at 0 and a negative index counts from the
\* end
\* ------------------------------------------------------------------------
PyAt(s, i) == IF i < 0 THEN s[Len(s) + i + 1] ELSE s[i + 1]
Min2i(a, b) == IF a < b THEN a ELSE b

\* ------------------------------------------------------------------------
\* s_nan, lines 301-322; yx rows are <<column 0, column 1, value>>
\* ------------------------------------------------------------------------
RECURSIVE ScanLow(_, _)
ScanLow(m, l) == IF l > 0 /\ IsNaN(PyAt(m, l)[3]) THEN ScanLow(m, l - 1) ELSE l

RECURSIVE ScanSup(_, _)
ScanSup(m, u) == IF u < Len(m) - 1 /\ IsNaN(PyAt(m, u)[3]) THEN ScanSup(m, u + 1) ELSE u

\* s_nan reading the adjacent rows instead of scanning over the nulls
s_nan_adjacent(m, i, fg) ==
    IF IsNaN(PyAt(m, i)[3]) /\ fg
    THEN FDivInt(FAdd(PyAt(m, Min2i(i + 1, Len(m) - 1))[3], PyAt(m, i - 1)[3]), 2)
    ELSE PyAt(m, i)[3]

s_nan(m, i, fg) ==
    IF IsNaN(PyAt(m, i)[3]) /\ fg
    THEN LET s_l == PyAt(m, ScanLow(m, i - 1))[3]
             s_s == PyAt(m, ScanSup(m, i))[3]
         IN  FDivInt(FAdd(s_s, s_l), 2)
    ELSE PyAt(m, i)[3]

\* ------------------------------------------------------------------------
\* Rows of one variable and their classification, lines 91-98 and 131-132
\* ------------------------------------------------------------------------
RowsOf(p, variable) == SelectSeq(p, LAMBDA r : r.variable = variable)

RECURSIVE InsertRow(_, _)
InsertRow(r, s) ==
    IF s = <<>> THEN <<r>>
    ELSE IF r.y_mid < Head(s).y_mid THEN <<r>> \o s
    ELSE <<Head(s)>> \o InsertRow(r, Tail(s))

RECURSIVE SortIndex(_)
SortIndex(s) == IF s = <<>> THEN <<>> ELSE InsertRow(s[Len(s)], SortIndex(SubSeq(s, 1, Len(s) - 1)))

IsContinuous(p, variable) ==
    LET r == RowsOf(p, variable)
    IN  Len(r) > 0 /\ \A i \in DOMAIN r : r[i].y_low = NoDepth

IsStep(p, variable) ==
    LET r == RowsOf(p, variable)
    IN  Len(r) > 0 /\ ~(\A i \in DOMAIN r : r[i].y_low = NoDepth)

\* ------------------------------------------------------------------------
\* Continuous path, lines 99-111
\* ------------------------------------------------------------------------
\* line 99-100: the samples sorted by y_mid, rows with a null value dropped
ContSamples(p, variable) == SelectSeq(SortIndex(RowsOf(p, variable)), LAMBDA r : ~IsNaN(r.val))

\* np.interp with its default left and right: the end values
Interp_clamped(x, xp, fp) ==
    LET n == Len(xp)
    IN  IF x < xp[1] THEN fp[1]
        ELSE IF x >= xp[n] THEN fp[n]
        ELSE LET j == SetMax({k \in 1..(n - 1) : xp[k] <= x})
             IN  FAdd(FDivInt(FMulInt(x - xp[j], FSub(fp[j + 1], fp[j])), xp[j + 1] - xp[j]), fp[j])

\* an interpolation that takes the slope of the interval below a node
Interp_below(x, xp, fp) ==
    LET n == Len(xp)
    IN  IF x < xp[1] \/ x > xp[n] THEN NaN
        ELSE IF x = xp[1] THEN fp[1]
        ELSE LET j == SetMax({k \in 1..(n - 1) : xp[k] < x})
             IN  FAdd(FDivInt(FMulInt(x - xp[j], FSub(fp[j + 1], fp[j])), 2 * (xp[j + 1] - xp[j])), fp[j])

\* np.interp(x, xp, fp, left=nan, right=nan)
Interp(x, xp, fp) ==
    LET n == Len(xp)
    IN  IF x < xp[1] \/ x > xp[n] THEN NaN
        ELSE IF x = xp[n] THEN fp[n]
        ELSE LET j == SetMax({k \in 1..(n - 1) : xp[k] <= x})
             IN  FAdd(FDivInt(FMulInt(x - xp[j], FSub(fp[j + 1], fp[j])), xp[j + 1] - xp[j]), fp[j])

\* lines 102-104: the samples within 1e-6 of a center written onto the reindexed
\* frame (a sample later in the index overwrites an earlier one)
PassThrough(c, xp, fp) ==
    LET near == {k \in DOMAIN xp : Abs(c - xp[k]) < TOL}
    IN  IF near = {} THEN NaN ELSE fp[SetMax(near)]

\* lines 106-107: y2x is rebuilt from np.interp alone
ContValue(c, xp, fp) == Interp(c, xp, fp)

ContinuousRows(p, variable, centers) ==
    LET yxc == ContSamples(p, variable)
        xp  == [i \in DOMAIN yxc |-> yxc[i].y_mid]
        fp  == [i \in DOMAIN yxc |-> yxc[i].val]
    IN  [i \in DOMAIN centers |->
            [variable |-> variable, y_low |-> NoDepth, y_mid |-> centers[i],
             y_sup |-> NoDepth, val |-> ContValue(centers[i], xp, fp)]]

\* line 102 reindex of a duplicated index and line 106 np.interp of no sample
\* both raise ValueError
ContinuousRaises(p, variable) ==
    LET yxc == ContSamples(p, variable)
    IN  \/ Len(yxc) = 0
        \/ \E i, j \in DOMAIN yxc : i # j /\ yxc[i].y_mid = yxc[j].y_mid

\* ------------------------------------------------------------------------
\* Step path
\* ------------------------------------------------------------------------
\* lines 133-141
StepMatrix(p, variable, vref) ==
    LET r == SortIndex(RowsOf(p, variable))
        a == [i \in DOMAIN r |-> <<r[i].y_sup, r[i].y_low, r[i].val>>]
        b == [i \in DOMAIN r |-> <<r[i].y_low, r[i].y_sup, r[i].val>>]
    IN  IF vref = "bottom" THEN (IF a[1][1] > a[1][2] THEN b ELSE a) ELSE b

\* np.where(cond)[0][-1], cond given as the set of the indices where it holds
LastWhere(where) == SetMax(where)

\* lines 152-155, 161-164, 211-214, 220-223
EmitY(ys, b, i) == ys \o <<PyAt(b, i), PyAt(b, i + 1)>>
EmitX(xs, v) == xs \o <<v, v>>

RECURSIVE EmitNaN(_, _, _, _)
EmitNaN(st, b, from, to) ==
    IF from < to
    THEN EmitNaN([x |-> EmitX(st.x, NaN), y |-> EmitY(st.y, b, from)], b, from + 1, to)
    ELSE st

\* line 159
InnerGuard(b, m, ib, iyx) == ib + 1 < Len(b) /\ PyAt(b, ib + 1) - PyAt(m, iyx)[2] <= TOL

\* line 170
SourceBeyond(b, m, ib) == ~(PyAt(m, 0 - 1)[2] - PyAt(b, ib) <= TOL)

\* lines 174-177
RECURSIVE Accumulate(_, _, _, _, _)
Accumulate(m, b, ib, fg, st) ==
    IF st.ii_yx < Len(m) - 1 /\ PyAt(m, st.ii_yx)[2] - PyAt(b, ib + 1) <= TOL
    THEN Accumulate(m, b, ib, fg,
             [ii_yx |-> st.ii_yx + 1,
              L |-> st.L + (PyAt(m, st.ii_yx)[2] - PyAt(b, ib)),
              S |-> FAdd(st.S, FMulInt(PyAt(m, st.ii_yx)[2] - PyAt(b, ib), s_nan(m, st.ii_yx, fg)))])
    ELSE st

\* lines 187-189
Partial(m, b, ib, fg, st) ==
    IF PyAt(m, st.ii_yx)[1] - PyAt(b, ib + 1) <= TOL
    THEN [ii_yx |-> st.ii_yx,
          L |-> st.L + (PyAt(b, ib + 1) - PyAt(m, st.ii_yx)[1]),
          S |-> FAdd(st.S, FMulInt(PyAt(b, ib + 1) - PyAt(m, st.ii_yx)[1], s_nan(m, st.ii_yx, fg)))]
    ELSE st

\* lines 190-193
Normalise(st) ==
    [st EXCEPT !.S = IF st.L > TOL THEN FDivInt(st.S, st.L) ELSE NaN]

\* lines 171-196: the value of bin ib, the cursor and the length after it
WeightedMean(m, b, ib, iyx, fg) ==
    IF iyx < Len(m) - 1
    THEN Normalise(Partial(m, b, ib, fg,
             Accumulate(m, b, ib, fg, [ii_yx |-> iyx, L |-> 0, S |-> FInt(0)])))
    ELSE [ii_yx |-> iyx, L |-> 0, S |-> PyAt(m, 0 - 1)[3]]

\* lines 226-232: the table of one step variable
StepTable(variable, ys, xs) ==
    LET uy == SortedUnique(Range(ys))
    IN  [i \in 1..(Len(uy) - 1) |->
            [variable |-> variable, y_low |-> uy[i], y_mid |-> uy[i] + Half(uy[i + 1] - uy[i]),
             y_sup |-> uy[i + 1], val |-> xs[2 * i - 1]]]

\* np.vstack raises ValueError when the rows differ in length
StepTableRaises(ys, xs) ==
    LET uy == SortedUnique(Range(ys))
    IN  Len(uy) > 0 /\ Len(uy) - 1 # Len(xs) \div 2

\* lines 113-120 and 235-242: the properties of the first row of the profile,
\* with the name of the variable, written onto every row of the table
\* the properties taken from the first row of the variable instead
Properties_own(p, variable, temp) ==
    [i \in DOMAIN temp |->
        [variable |-> variable, y_low |-> temp[i].y_low, y_mid |-> temp[i].y_mid,
         y_sup |-> temp[i].y_sup, val |-> temp[i].val,
         name |-> RowsOf(p, variable)[1].name, comment |-> RowsOf(p, variable)[1].comment]]

Properties(p, variable, temp) ==
    [i \in DOMAIN temp |->
        [variable |-> variable, y_low |-> temp[i].y_low, y_mid |-> temp[i].y_mid,
         y_sup |-> temp[i].y_sup, val |-> temp[i].val,
         name |-> p[1].name, comment |-> p[1].comment]]

\* ------------------------------------------------------------------------
\* discretize_profile, lines 87-261: the loop over the variables
\* ------------------------------------------------------------------------
variable == variables[vi]
OuterTest(ib) == IF ib < Len(y_bins) - 1 THEN "inner" ELSE "assemble"

\* a table that holds one row of nulls for the variable
EmptyTable_nulls(p, v) ==
    <<[variable |-> v, y_low |-> NoDepth, y_mid |-> NoDepth, y_sup |-> NoDepth, val |-> NaN,
       name |-> p[1].name, comment |-> p[1].comment]>>

\* line 89: the table of a variable before either path fills it
EmptyTable(p, v) == <<>>

\* lines 89-98, 131-132 and 259: a variable no row of the profile carries
\* takes neither path, and its empty table is appended
NoData ==
    /\ pc = "variable"
    /\ vi <= Len(variables)
    /\ ~IsContinuous(profile, variable)
    /\ ~IsStep(profile, variable)
    /\ discretized_profile' = discretized_profile \o EmptyTable(profile, variable)
    /\ vi' = vi + 1
    /\ UNCHANGED <<inputs, returned, sv_vars, pc, err, y_bins, y_mid, yx, ii_bin, ii_yx, x_step, y_step,
                   S, L>>

\* lines 97-121 and 259
Continuous ==
    /\ pc = "variable"
    /\ vi <= Len(variables)
    /\ IsContinuous(profile, variable)
    /\ IF ContinuousRaises(profile, variable)
       THEN /\ pc' = "raised"
            /\ err' = "ValueError"
            /\ UNCHANGED <<vi, discretized_profile>>
       ELSE /\ discretized_profile' =
                   discretized_profile \o Properties(profile, variable, ContinuousRows(profile, variable, y_mid))
            /\ vi' = vi + 1
            /\ UNCHANGED <<pc, err>>
    /\ UNCHANGED <<inputs, returned, sv_vars, y_bins, y_mid, yx, ii_bin, ii_yx, x_step, y_step, S, L>>

\* lines 131-156
StepStart ==
    /\ pc = "variable"
    /\ vi <= Len(variables)
    /\ IsStep(profile, variable)
    /\ LET m == StepMatrix(profile, variable, v_ref)
       IN  /\ yx' = m
           /\ IF PyAt(m, 0)[1] < PyAt(y_bins, 0)
              THEN /\ ii_yx' = LastWhere({k \in 0..(Len(m) - 1) : PyAt(m, k)[1] - PyAt(y_bins, 0) <= TOL})
                   /\ ii_bin' = 0
                   /\ x_step' = <<>>
                   /\ y_step' = <<>>
              ELSE LET ib == LastWhere({k \in 0..(Len(y_bins) - 1) : PyAt(y_bins, k) - PyAt(m, 0)[1] <= TOL})
                       st == EmitNaN([x |-> <<>>, y |-> <<>>], y_bins, 0, ib)
                   IN  /\ ii_bin' = ib
                       /\ ii_yx' = 0
                       /\ x_step' = st.x
                       /\ y_step' = st.y
    /\ pc' = OuterTest(ii_bin')
    /\ UNCHANGED <<inputs, returned, sv_vars, err, y_bins, y_mid, vi, S, L, discretized_profile>>

\* lines 159-165: one turn of the inner loop
InnerEmit ==
    /\ pc = "inner"
    /\ InnerGuard(y_bins, yx, ii_bin, ii_yx)
    /\ S' = s_nan(yx, ii_yx, fill_gap)
    /\ y_step' = EmitY(y_step, y_bins, ii_bin)
    /\ x_step' = EmitX(x_step, S')
    /\ ii_bin' = ii_bin + 1
    /\ UNCHANGED <<inputs, returned, sv_vars, pc, err, y_bins, y_mid, vi, yx, ii_yx, L, discretized_profile>>

\* lines 170-215: the bin the current source interval does not cover
Weighted ==
    /\ pc = "inner"
    /\ ~InnerGuard(y_bins, yx, ii_bin, ii_yx)
    /\ SourceBeyond(y_bins, yx, ii_bin)
    /\ IF ii_bin + 1 >= Len(y_bins)
       THEN /\ pc' = "raised"
            /\ err' = "IndexError"
            /\ UNCHANGED <<ii_bin, ii_yx, x_step, y_step, S, L>>
       ELSE LET w == WeightedMean(yx, y_bins, ii_bin, ii_yx, fill_gap)
            IN  /\ S' = w.S
                /\ L' = w.L
                /\ ii_yx' = w.ii_yx
                /\ y_step' = EmitY(y_step, y_bins, ii_bin)
                /\ x_step' = EmitX(x_step, w.S)
                /\ ii_bin' = ii_bin + 1
                /\ pc' = OuterTest(ii_bin + 1)
                /\ err' = err
    /\ UNCHANGED <<inputs, returned, sv_vars, y_bins, y_mid, vi, yx, discretized_profile>>

\* lines 218-224: the bins above the last source interval
TailFill ==
    /\ pc = "inner"
    /\ ~InnerGuard(y_bins, yx, ii_bin, ii_yx)
    /\ ~SourceBeyond(y_bins, yx, ii_bin)
    /\ LET st == EmitNaN([x |-> x_step, y |-> y_step], y_bins, ii_bin, Len(y_bins) - 1)
       IN  /\ x_step' = st.x
           /\ y_step' = st.y
    /\ ii_bin' = IF ii_bin + 1 < Len(y_bins) THEN Len(y_bins) - 1 ELSE ii_bin
    /\ pc' = OuterTest(ii_bin')
    /\ UNCHANGED <<inputs, returned, sv_vars, err, y_bins, y_mid, vi, yx, ii_yx, S, L, discretized_profile>>

\* lines 226-243 and 259
Assemble ==
    /\ pc = "assemble"
    /\ IF StepTableRaises(y_step, x_step)
       THEN /\ pc' = "raised"
            /\ err' = "ValueError"
            /\ UNCHANGED <<vi, discretized_profile>>
       ELSE /\ discretized_profile' =
                   discretized_profile \o Properties(profile, variable, StepTable(variable, y_step, x_step))
            /\ vi' = vi + 1
            /\ pc' = "variable"
            /\ err' = err
    /\ UNCHANGED <<inputs, returned, sv_vars, y_bins, y_mid, yx, ii_bin, ii_yx, x_step, y_step, S, L>>

\* line 261
Return ==
    /\ pc = "variable"
    /\ vi > Len(variables)
    /\ pc' = "done"
    /\ returned' = "discretized_profile"
    /\ UNCHANGED <<inputs, sv_vars, err, y_bins, y_mid, vi, yx, ii_bin, ii_yx, x_step, y_step, S, L,
                   discretized_profile>>

Next ==
    \/ Empty
    \/ Resolve
    \/ Integrity
    \/ NoData
    \/ Continuous
    \/ StepStart
    \/ InnerEmit
    \/ Weighted
    \/ TailFill
    \/ Assemble
    \/ Return

Spec == Init /\ [][Next]_vars

\* ------------------------------------------------------------------------
\* set_vertical_reference, lines 264-297.  Rows of the profile:
\* [y_low, y_mid, y_sup, v_ref, ice_thickness, length]; NoDepth is the null
\* of a depth, of an ice thickness and of a length
\* ------------------------------------------------------------------------
Column(p, f) == [i \in DOMAIN p |-> p[i][f]]

\* Series.unique(): the values in order of first appearance
RECURSIVE Unique(_)
Unique(s) ==
    IF s = <<>> THEN <<>>
    ELSE LET u == Unique(SubSeq(s, 1, Len(s) - 1))
         IN  IF \E i \in DOMAIN u : u[i] = s[Len(s)] THEN u ELSE Append(u, s[Len(s)])

DropNaSeq(s) == SelectSeq(s, LAMBDA x : x # NoDepth)
AllNaN(s) == \A i \in DOMAIN s : s[i] = NoDepth
\* a subtraction of floats, null when an operand is null
Minus(a, b) == IF a = NoDepth \/ b = NoDepth THEN NoDepth ELSE a - b

\* hi taken from the length before the ice thickness
Anchor_length(p) ==
    IF ~AllNaN(Column(p, "length")) THEN Unique(DropNaSeq(Column(p, "length")))
    ELSE IF ~AllNaN(Column(p, "ice_thickness")) THEN Unique(DropNaSeq(Column(p, "ice_thickness")))
    ELSE <<>>

\* lines 280-287: hi, the array of the distinct ice thicknesses, or of the
\* distinct lengths when no ice thickness is given; <<>> when neither is
Anchor(p) ==
    IF ~AllNaN(Column(p, "ice_thickness")) THEN Unique(DropNaSeq(Column(p, "ice_thickness")))
    ELSE IF ~AllNaN(Column(p, "length")) THEN Unique(DropNaSeq(Column(p, "length")))
    ELSE <<>>

\* hi - profile[column]: an array of one element is broadcast, an array of
\* the length of the column is taken element by element, any other raises
Broadcasts(hi, p) == Len(hi) = 1 \/ Len(hi) = Len(p)
HiAt(hi, i) == IF Len(hi) = 1 THEN hi[1] ELSE hi[i]

\* lines 289-292
Flip(p, hi) ==
    [i \in DOMAIN p |->
        [p[i] EXCEPT !.y_low = Minus(HiAt(hi, i), @),
                     !.y_mid = Minus(HiAt(hi, i), @),
                     !.y_sup = Minus(HiAt(hi, i), @)]]

\* lines 294-297
Shift(p, h_ref) ==
    [i \in DOMAIN p |->
        [p[i] EXCEPT !.y_low = Minus(@, h_ref),
                     !.y_mid = Minus(@, h_ref),
                     !.y_sup = Minus(@, h_ref)]]

\* the shift made before the flip
set_vertical_reference_shift_first(p, h_ref, new_v_ref) ==
    LET tags == Unique(Column(p, "v_ref"))
        hi   == Anchor(p)
        new  == IF new_v_ref = "None" THEN tags[1] ELSE new_v_ref
    IN  IF new_v_ref = "None" /\ Len(tags) > 1 THEN [profile |-> p, result |-> "NameError"]
        ELSE IF hi = <<>> THEN [profile |-> p, result |-> "NameError"]
        ELSE IF new # tags[1] /\ ~Broadcasts(hi, p) THEN [profile |-> p, result |-> "ValueError"]
        ELSE LET shifted == IF h_ref # 0 THEN Shift(p, h_ref) ELSE p
                 flipped == IF new # tags[1] THEN Flip(shifted, hi) ELSE shifted
             IN  [profile |-> flipped, result |-> "None"]

\* the profile after the call and what the call hands back: the function
\* has no return statement after the conversion, and CoreStack is not a name
\* of the module
set_vertical_reference(p, h_ref, new_v_ref) ==
    LET tags == Unique(Column(p, "v_ref"))
        hi   == Anchor(p)
        new  == IF new_v_ref = "None" THEN tags[1] ELSE new_v_ref
    IN  IF new_v_ref = "None" /\ Len(tags) > 1 THEN [profile |-> p, result |-> "NameError"]
        ELSE IF hi = <<>> THEN [profile |-> p, result |-> "NameError"]
        ELSE IF new # tags[1] /\ ~Broadcasts(hi, p) THEN [profile |-> p, result |-> "ValueError"]
        ELSE LET flipped == IF new # tags[1] THEN Flip(p, hi) ELSE p
                 shifted == IF h_ref # 0 THEN Shift(flipped, h_ref) ELSE flipped
             IN  [profile |-> shifted, result |-> "None"]

\* the profiles handed to set_vertical_reference
RefRow(lo, mid, hi, tag, it, len) ==
    [y_low |-> lo, y_mid |-> mid, y_sup |-> hi, v_ref |-> tag, ice_thickness |-> it, length |-> len]
RefGeoms ==
    {<<<<0, H, U>>>>,
     <<<<0, H, U>>, <<U, 3 * H, 2 * U>>>>,
     <<<<NoDepth, H, NoDepth>>, <<NoDepth, U, NoDepth>>>>}
Thicknesses == {NoDepth, 0, 2 * U, 3 * U}
Lengths == {NoDepth, 0 - U, 3 * U}
RefProfiles ==
    UNION {{[i \in DOMAIN g |-> RefRow(g[i][1], g[i][2], g[i][3], tags[i], its[i], len)]
              : tags \in [DOMAIN g -> {"top", "bottom"}],
                its \in [DOMAIN g -> Thicknesses],
                len \in Lengths}
           : g \in RefGeoms}
\* three sections with two ice thicknesses
LongProfiles ==
    {[i \in 1..3 |-> RefRow((i - 1) * U, (i - 1) * U + H, i * U, tag, its[i], len)]
        : tag \in {"top", "bottom"}, its \in [1..3 -> {2 * U, 3 * U}], len \in Lengths}

InitRef ==
    /\ sv_profile \in RefProfiles \cup LongProfiles
    /\ sv_calls = <<>>
    /\ profile = <<>>
    /\ v_ref = "top"
    /\ arg_y_bins = None
    /\ arg_y_mid = None
    /\ variables = <<>>
    /\ fill_gap = TRUE
    /\ pc = "off"
    /\ err = "none"
    /\ y_bins = <<>>
    /\ y_mid = <<>>
    /\ vi = 1
    /\ yx = <<>>
    /\ ii_bin = 0
    /\ ii_yx = 0
    /\ x_step = <<>>
    /\ y_step = <<>>
    /\ S = NaN
    /\ L = 0
    /\ discretized_profile = <<>>
    /\ returned = "nothing"

\* one call of set_vertical_reference on the profile, which the function
\* changes in place
SetVerticalReference ==
    /\ pc = "off"
    /\ Len(sv_calls) < MaxCalls
    /\ \E new_v_ref \in {"None", "top", "bottom"}, h_ref \in {0, U} :
           LET r == set_vertical_reference(sv_profile, h_ref, new_v_ref)
           IN  /\ sv_profile' = r.profile
               /\ sv_calls' = Append(sv_calls,
                      [new_v_ref |-> new_v_ref, h_ref |-> h_ref,
                       before |-> sv_profile, result |-> r.result])
    /\ UNCHANGED dp_vars

NextRef == SetVerticalReference

SpecRef == InitRef /\ [][NextRef]_vars

\* ========================================================================
\* Properties
\* ========================================================================
Min2(a, b) == IF a < b THEN a ELSE b
Max2(a, b) == IF a > b THEN a ELSE b

\* the source intervals of the step variable, in ascending depth order
Src == SortIndex(RowsOf(profile, "salinity"))
SrcLow(k) == Min2(Src[k].y_low, Src[k].y_sup)
SrcSup(k) == Max2(Src[k].y_low, Src[k].y_sup)

\* the overlap length of source interval k with the bin [lo, hi]
Overlap(k, lo, hi) == Min2(hi, SrcSup(k)) - Max2(lo, SrcLow(k))
Overlapping(lo, hi) == {k \in DOMAIN Src : Overlap(k, lo, hi) > 0}

\* the nearest non-null values below and above row k of the sorted rows src
KnownBelow(src, k) == {j \in DOMAIN src : src[j].y_mid < src[k].y_mid /\ ~IsNaN(src[j].val)}
KnownAbove(src, k) == {j \in DOMAIN src : src[j].y_mid > src[k].y_mid /\ ~IsNaN(src[j].val)}
NearestBelow(src, k) ==
    CHOOSE j \in KnownBelow(src, k) : \A i \in KnownBelow(src, k) : src[i].y_mid <= src[j].y_mid
NearestAbove(src, k) ==
    CHOOSE j \in KnownAbove(src, k) : \A i \in KnownAbove(src, k) : src[i].y_mid >= src[j].y_mid
StrictlyBetween(src, k) ==
    IsNaN(src[k].val) /\ KnownBelow(src, k) # {} /\ KnownAbove(src, k) # {}
GapMean(src, k) == FDivInt(FAdd(src[NearestBelow(src, k)].val, src[NearestAbove(src, k)].val), 2)

\* the value of source interval k that enters the weighting: its own, or
\* the estimate s_nan fills in for a null
SrcMatrix == [k \in DOMAIN Src |-> <<SrcLow(k), SrcSup(k), Src[k].val>>]
Weighed(k) == s_nan(SrcMatrix, k - 1, fill_gap)

RECURSIVE TotalOverlap(_, _, _)
TotalOverlap(k, lo, hi) ==
    IF k = 0 THEN 0 ELSE TotalOverlap(k - 1, lo, hi) + Max2(0, Overlap(k, lo, hi))

RECURSIVE WeightedSum(_, _, _)
WeightedSum(k, lo, hi) ==
    IF k = 0 THEN FInt(0)
    ELSE IF Overlap(k, lo, hi) > 0
    THEN FAdd(WeightedSum(k - 1, lo, hi), FMulInt(Overlap(k, lo, hi), Weighed(k)))
    ELSE WeightedSum(k - 1, lo, hi)

OverlapMean(lo, hi) == FDivInt(WeightedSum(Len(Src), lo, hi), TotalOverlap(Len(Src), lo, hi))

\* the bins of the grid the sweep has emitted, and the value of each
Emitted == 1..(Len(x_step) \div 2)
BinLow(i) == y_step[2 * i - 1]
BinSup(i) == y_step[2 * i]
BinValue(i) == x_step[2 * i - 1]
StepDone == pc = "done" /\ Len(Src) > 0

\* the grid the sweep ran on is in ascending order
Increasing(e) == \A i \in 1..(Len(e) - 1) : e[i] < e[i + 1]
\* no source boundary lies within the tolerance of an edge of bin i without
\* coinciding with it
Clear(i) ==
    \A k \in DOMAIN Src : \A q \in {SrcLow(k), SrcSup(k)} : \A e \in {BinLow(i), BinSup(i)} :
        q = e \/ Abs(q - e) > TOL

\* C1: in the step path the value of every target bin whose total overlap
\* with the source intervals is positive is sum(w_k * v_k) / sum(w_k) over the
\* source intervals that overlap it, w_k being the overlap length.  Stated
\* for grids in ascending order and bins whose edges are clear of the 1e-6
\* tolerance, so that a violation is no artefact of either
C1_OverlapWeightedMean ==
    (StepDone /\ Increasing(y_bins)) =>
        \A i \in Emitted :
            (Clear(i) /\ TotalOverlap(Len(Src), BinLow(i), BinSup(i)) > 0)
                => BinValue(i) = OverlapMean(BinLow(i), BinSup(i))

\* the source intervals tile the supplied edges: no gap, same extent, every
\* edge a boundary between source intervals
SrcBounds == {SrcLow(k) : k \in DOMAIN Src} \cup {SrcSup(k) : k \in DOMAIN Src}
Tiles(e) ==
    /\ Len(Src) > 0
    /\ \A k \in DOMAIN Src : SrcLow(k) = e[1] \/ \E j \in DOMAIN Src : SrcSup(j) = SrcLow(k)
    /\ SetMin(SrcBounds) = e[1]
    /\ SetMax(SrcBounds) = e[Len(e)]
    /\ Range(e) \subseteq SrcBounds
Within(lo, hi) == {k \in DOMAIN Src : lo <= SrcLow(k) /\ SrcSup(k) <= hi}

RECURSIVE SumValues(_, _)
SumValues(k, K) ==
    IF k = 0 THEN FInt(0)
    ELSE IF k \in K THEN FAdd(SumValues(k - 1, K), Weighed(k)) ELSE SumValues(k - 1, K)
PlainMean(K) == FDivInt(SumValues(Len(Src), K), Cardinality(K))

\* C2: when the source intervals tile the target grid, the result has one row
\* per bin and each row holds the plain mean of the source values contained in
\* its bin (the source values themselves when intervals and bins coincide)
C2_TilingPlainMean ==
    (StepDone /\ ~arg_y_bins.none /\ arg_y_mid.none /\ Tiles(arg_y_bins.v)) =>
        LET e == arg_y_bins.v
            out == RowsOf(discretized_profile, "salinity")
        IN  /\ Len(out) = Len(e) - 1
            /\ \A i \in 1..(Len(e) - 1) :
                   /\ out[i].y_low = e[i]
                   /\ out[i].y_sup = e[i + 1]
                   /\ out[i].val = PlainMean(Within(e[i], e[i + 1]))

\* the values a bin may take from the source intervals that overlap it
Hull(K) == {Weighed(k) : k \in K}
InHull(v, K) ==
    /\ \E k \in K : FLeq(Weighed(k), v)
    /\ \E k \in K : FLeq(v, Weighed(k))

\* C3: a bin no source interval overlaps with positive length gets null, and
\* no bin takes a value from source intervals it does not overlap (a value
\* outside the range of the values that overlap it).  Stated for grids in
\* ascending order and bins whose edges are clear of the 1e-6 tolerance
C3_NoOverlapIsNull ==
    (StepDone /\ Increasing(y_bins)) =>
        \A i \in Emitted :
            LET K == Overlapping(BinLow(i), BinSup(i))
            IN  Clear(i) =>
                    /\ K = {} => IsNaN(BinValue(i))
                    /\ (K # {} /\ ~IsNaN(BinValue(i)) /\ \A k \in K : ~IsNaN(Weighed(k)))
                           => InHull(BinValue(i), K)

\* C5: with fill_gap false every bin a null-valued source interval overlaps
\* gets null
C5_NullPropagates ==
    (StepDone /\ ~fill_gap) =>
        \A i \in Emitted :
            (\E k \in Overlapping(BinLow(i), BinSup(i)) : IsNaN(Src[k].val))
                => IsNaN(BinValue(i))

\* C4: with fill_gap true, s_nan replaces a null value that lies strictly
\* between known values by the mean of the nearest non-null value below and
\* the nearest non-null value above, whatever the run of nulls around it
C4_GapFillMean ==
    (fill_gap /\ yx # <<>>) =>
        LET src == Src
        IN  \A k \in DOMAIN src :
                StrictlyBetween(src, k) => s_nan(yx, k - 1, fill_gap) = GapMean(src, k)

\* the sweep has emitted a bin from a filled value, inside a run of two nulls
\* between two different known values
C4_Witness ==
    /\ fill_gap
    /\ pc = "inner"
    /\ Len(x_step) > 0
    /\ StrictlyBetween(Src, ii_yx + 1)
    /\ ii_yx + 2 \in DOMAIN Src
    /\ IsNaN(Src[ii_yx + 2].val)
    /\ S = GapMean(Src, ii_yx + 1)
    /\ S = FInt(2)
    /\ x_step[Len(x_step)] = S

\* ------------------------------------------------------------------------
\* Continuous path
\* ------------------------------------------------------------------------
TempRows == RowsOf(profile, "temperature")
TempOut == SelectSeq(discretized_profile, LAMBDA r : r.variable = "temperature")
ContAsked ==
    /\ IsContinuous(profile, "temperature")
    /\ \E i \in DOMAIN variables : variables[i] = "temperature"
ContDone == pc = "done" /\ ContAsked
\* two rows with a non-null value at one depth
SharedDepth ==
    \E i, j \in DOMAIN TempRows :
        /\ i # j
        /\ TempRows[i].y_mid = TempRows[j].y_mid
        /\ ~IsNaN(TempRows[i].val)
        /\ ~IsNaN(TempRows[j].val)

TempDepths == {TempRows[i].y_mid : i \in DOMAIN TempRows}

\* C7: a center below the least or above the greatest y_mid of the
\* variable's samples gets null
C7_NoExtrapolation ==
    ContDone =>
        \A j \in DOMAIN TempOut :
            (TempOut[j].y_mid < SetMin(TempDepths) \/ TempOut[j].y_mid > SetMax(TempDepths))
                => IsNaN(TempOut[j].val)

\* a center above the deepest sample, which has a known value, is null while
\* a center inside the range has a value
C7_Witness ==
    /\ ContDone
    /\ \E i \in DOMAIN TempRows : \E j, k \in DOMAIN TempOut :
           /\ TempRows[i].y_mid = SetMax(TempDepths)
           /\ ~IsNaN(TempRows[i].val)
           /\ TempOut[j].y_mid > SetMax(TempDepths)
           /\ IsNaN(TempOut[j].val)
           /\ ~IsNaN(TempOut[k].val)

\* C8, as claimed: the only sample within the tolerance of a center, not on
\* the center, has its value at that center
C8_NearPassThrough ==
    ContDone =>
        \A i \in DOMAIN TempRows : \A j \in DOMAIN TempOut :
            (/\ ~IsNaN(TempRows[i].val)
             /\ TempOut[j].y_mid # TempRows[i].y_mid
             /\ Abs(TempOut[j].y_mid - TempRows[i].y_mid) < TOL
             /\ \A k \in DOMAIN TempRows :
                    Abs(TempOut[j].y_mid - TempRows[k].y_mid) < TOL => k = i)
                => TempOut[j].val = TempRows[i].val

\* ------------------------------------------------------------------------
\* Grid resolution
\* ------------------------------------------------------------------------
EdgesOnly == ~arg_y_bins.none /\ arg_y_mid.none
CentersOnly == arg_y_bins.none /\ ~arg_y_mid.none

\* C9: from strictly increasing edges alone, one center per pair of
\* consecutive edges, each the midpoint of its pair
C9_CentersAreMidpoints ==
    (EdgesOnly /\ Increasing(arg_y_bins.v) /\ pc # "start") =>
        /\ Len(y_mid) = Len(arg_y_bins.v) - 1
        /\ \A i \in DOMAIN y_mid : 2 * y_mid[i] = arg_y_bins.v[i] + arg_y_bins.v[i + 1]

\* a returned call on three or more edges of unequal spacing
C9_Witness ==
    /\ EdgesOnly
    /\ pc = "done"
    /\ Len(arg_y_bins.v) >= 3
    /\ arg_y_bins.v[2] - arg_y_bins.v[1] # arg_y_bins.v[3] - arg_y_bins.v[2]
    /\ Len(y_mid) = Len(arg_y_bins.v) - 1
    /\ 2 * y_mid[2] = arg_y_bins.v[2] + arg_y_bins.v[3]
    /\ Len(discretized_profile) > 0

ExpectedEdges(m) ==
    [i \in 1..(Len(m) + 1) |->
        IF i = 1 THEN Max2(0, m[1] - Half(m[2] - m[1]))
        ELSE IF i = Len(m) + 1 THEN m[Len(m)] + Half(m[Len(m)] - m[Len(m) - 1])
        ELSE Half(m[i - 1] + m[i])]

\* C10, as claimed: from centers alone the edges are the midpoints of
\* consecutive centers between a first edge half a spacing below the first
\* center, 0 if that is negative, and a last edge half a spacing above the last
\* center; the first edge of the grid the sweep uses is not negative
C10_CentersOnlyEdges ==
    (CentersOnly /\ Len(arg_y_mid.v) >= 2) =>
        /\ pc = "integrity" => y_bins = ExpectedEdges(SortValues(arg_y_mid.v))
        /\ (pc \notin {"start", "integrity"} /\ y_bins # <<>>) => y_bins[1] >= 0

\* the grid the variables are discretized on: y_bins and y_mid once the
\* integrity check has run
GridUsed == pc \notin {"start", "integrity"} /\ y_bins # <<>>
\* the grid of the VARIABLES CHECK, before the integrity check
Resolved == VariablesCheck(profile, arg_y_bins, arg_y_mid)

\* C11, as claimed: in every call mode the grid used has strictly increasing
\* edges and one edge more than it has centers
C11_GridStrictlyIncreasing ==
    GridUsed => Increasing(y_bins) /\ Len(y_bins) = Len(y_mid) + 1

\* C12, as claimed: the integrity check adds a lower edge only when the least
\* center is not above the least edge by the tolerance and an upper edge only
\* when the greatest center is not below the greatest edge by the tolerance,
\* and the edges of the grid used bracket its centers
LowerNeeded == SeqMin(Resolved.y_mid) - SeqMin(Resolved.y_bins) < TOL
UpperNeeded == SeqMax(Resolved.y_bins) - SeqMax(Resolved.y_mid) < TOL
C12_RepairOnlyWhenNeeded ==
    GridUsed =>
        /\ Len(y_bins) - Len(Resolved.y_bins)
               <= (IF LowerNeeded THEN 1 ELSE 0) + (IF UpperNeeded THEN 1 ELSE 0)
        /\ SeqMin(y_bins) <= SeqMin(y_mid)
        /\ SeqMax(y_bins) >= SeqMax(y_mid)

\* ------------------------------------------------------------------------
\* The table returned
\* ------------------------------------------------------------------------
\* the variables of the call that have rows in the profile
Processed == {i \in DOMAIN variables : RowsOf(profile, variables[i]) # <<>>}
OutRows(v) == RowsOf(discretized_profile, v)
\* the position in the variables list of the variable of output row j
ListIndex(j) == CHOOSE i \in DOMAIN variables : variables[i] = discretized_profile[j].variable

\* C13, as claimed: every variable with rows has one output row per bin of
\* the grid used, row i with y_low = edges[i], y_mid = centers[i] and
\* y_sup = edges[i+1], and the rows of the variables follow the variables list
C13_OneRowPerBin ==
    pc = "done" =>
        /\ \A k \in Processed :
               LET out == OutRows(variables[k])
               IN  /\ Len(out) = Len(y_bins) - 1
                   /\ Len(out) = Len(y_mid)
                   /\ \A i \in DOMAIN out :
                          /\ out[i].y_low = y_bins[i]
                          /\ out[i].y_mid = y_mid[i]
                          /\ out[i].y_sup = y_bins[i + 1]
        /\ \A i, j \in DOMAIN discretized_profile :
               i < j => ListIndex(i) <= ListIndex(j)

\* C14: every row of the result carries the metadata of the first row of the
\* input profile, and its variable field names a variable of the call, the
\* one being processed when the row was written
C14_MetadataOfFirstRow ==
    /\ \A j \in DOMAIN discretized_profile :
           /\ discretized_profile[j].name = profile[1].name
           /\ discretized_profile[j].comment = profile[1].comment
           /\ \E i \in 1..(vi - 1) : variables[i] = discretized_profile[j].variable
    /\ \A i, j \in DOMAIN discretized_profile : i < j => ListIndex(i) <= ListIndex(j)

\* a returned call on a profile whose first row is of another variable than
\* the rows of the result
C14_Witness ==
    /\ pc = "done"
    /\ Len(discretized_profile) >= 2
    /\ Len(profile) >= 2
    /\ profile[1].variable = "temperature"
    /\ profile[2].comment # profile[1].comment
    /\ \A j \in DOMAIN discretized_profile :
           /\ discretized_profile[j].variable = "salinity"
           /\ discretized_profile[j].comment = profile[1].comment

\* C15, as claimed: no step of a call changes the profile, the edges or the
\* centers handed in, and the object returned is never the profile handed in
C15_FreshResultNoMutation ==
    /\ [][profile' = profile /\ arg_y_bins' = arg_y_bins /\ arg_y_mid' = arg_y_mid]_vars
    /\ [](pc = "done" => returned = "discretized_profile")

\* the call is made on the profile's own grid
OnOwnGrid ==
    /\ profile # <<>>
    /\ IsGridLike(profile)
    /\ arg_y_bins = Some(OwnEdges(profile))
    /\ arg_y_mid = Some(OwnCenters(profile))

\* C16, as claimed: a profile of the shape of a discretized one, discretized
\* on its own edges and centers, comes back with the same number of rows, the
\* same depths and the same values
C16_OwnGridNoOp ==
    (pc = "done" /\ OnOwnGrid) =>
        LET out == OutRows("salinity")
        IN  /\ Len(out) = Len(profile)
            /\ \A i \in DOMAIN out :
                   /\ out[i].y_low = profile[i].y_low
                   /\ out[i].y_mid = profile[i].y_mid
                   /\ out[i].y_sup = profile[i].y_sup
                   /\ out[i].val = profile[i].val

\* ------------------------------------------------------------------------
\* Properties of set_vertical_reference
\* ------------------------------------------------------------------------
\* the profile as the k-th call left it
AfterCall(k) == IF k = Len(sv_calls) THEN sv_profile ELSE sv_calls[k + 1].before
DepthFields == {"y_low", "y_mid", "y_sup"}
\* every row carries the same vertical reference
UniformTag(p) == \A i, j \in DOMAIN p : p[i].v_ref = p[j].v_ref
Given(p, f) == {p[i][f] : i \in DOMAIN p} \ {NoDepth}
\* the anchor lengths of a profile: its ice thicknesses when one is given,
\* its lengths otherwise
AnchorLengths(p) ==
    IF Given(p, "ice_thickness") # {} THEN Given(p, "ice_thickness") ELSE Given(p, "length")
HasOneAnchor(p) == Cardinality(AnchorLengths(p)) = 1
TheAnchor(p) == CHOOSE a \in AnchorLengths(p) : TRUE
\* the reference asked for is not the one of the profile; no reference asked
\* for stands for the one of the profile
Differs(c) == c.new_v_ref # "None" /\ c.new_v_ref # c.before[1].v_ref

\* C17: on a profile of one vertical reference and a zero point of 0, a call
\* asking for another reference, the profile having a single anchor length,
\* turns every depth field into anchor - depth, the anchor being the ice
\* thickness when one is given and the length otherwise; a call asking for the
\* reference of the profile leaves every depth field as it was
C17_FlipAboutAnchor ==
    \A k \in DOMAIN sv_calls :
        LET c == sv_calls[k]
            p == c.before
            q == AfterCall(k)
        IN  (UniformTag(p) /\ c.h_ref = 0) =>
                /\ Len(q) = Len(p)
                /\ (Differs(c) /\ HasOneAnchor(p)) =>
                       \A i \in DOMAIN p : \A f \in DepthFields :
                           q[i][f] = Minus(TheAnchor(p), p[i][f])
                /\ ~Differs(c) =>
                       \A i \in DOMAIN p : \A f \in DepthFields : q[i][f] = p[i][f]

\* a flip was made about an ice thickness that is not the length
C17_Witness ==
    \E k \in DOMAIN sv_calls :
        LET c == sv_calls[k]
            p == c.before
            q == AfterCall(k)
        IN  /\ UniformTag(p) /\ c.h_ref = 0 /\ Differs(c) /\ HasOneAnchor(p)
            /\ Given(p, "length") # {}
            /\ Given(p, "ice_thickness") # {}
            /\ Given(p, "length") # Given(p, "ice_thickness")
            /\ c.result = "None"
            /\ p[1].y_mid # NoDepth
            /\ q[1].y_mid = TheAnchor(p) - p[1].y_mid
            /\ q[1].y_mid # p[1].y_mid

\* C18: with a zero point other than 0, on a profile of one vertical
\* reference and a single anchor length, every depth field becomes
\* (anchor - depth) - zero_point when another reference is asked for and
\* depth - zero_point otherwise, and never anchor - (depth - zero_point)
C18_FlipBeforeShift ==
    \A k \in DOMAIN sv_calls :
        LET c == sv_calls[k]
            p == c.before
            q == AfterCall(k)
        IN  (UniformTag(p) /\ HasOneAnchor(p) /\ c.h_ref # 0) =>
                /\ Len(q) = Len(p)
                /\ \A i \in DOMAIN p : \A f \in DepthFields :
                       /\ q[i][f] = IF Differs(c)
                                     THEN Minus(Minus(TheAnchor(p), p[i][f]), c.h_ref)
                                     ELSE Minus(p[i][f], c.h_ref)
                       /\ (Differs(c) /\ p[i][f] # NoDepth) =>
                              q[i][f] # TheAnchor(p) - (p[i][f] - c.h_ref)

\* a flip and a shift were made in one call
C18_Witness ==
    \E k \in DOMAIN sv_calls :
        LET c == sv_calls[k]
            p == c.before
            q == AfterCall(k)
        IN  /\ UniformTag(p) /\ HasOneAnchor(p) /\ c.h_ref # 0 /\ Differs(c)
            /\ c.result = "None"
            /\ p[1].y_mid # NoDepth
            /\ q[1].y_mid = (TheAnchor(p) - p[1].y_mid) - c.h_ref

\* C19, as claimed: a conversion to the other reference followed by a
\* conversion back to the reference the profile had, both with a zero point of
\* 0 and the same single anchor length, restores every depth field
C19_FlipInvolution ==
    \A k \in DOMAIN sv_calls :
        (k + 1 \in DOMAIN sv_calls) =>
            LET c1 == sv_calls[k]
                c2 == sv_calls[k + 1]
                p  == c1.before
                q  == AfterCall(k + 1)
            IN  (/\ UniformTag(p) /\ HasOneAnchor(p)
                 /\ Differs(c1) /\ c1.h_ref = 0
                 /\ c2.new_v_ref = p[1].v_ref /\ c2.h_ref = 0) =>
                    /\ Len(q) = Len(p)
                    /\ \A i \in DOMAIN p : \A f \in DepthFields : q[i][f] = p[i][f]

\* C20, as claimed: a call hands back a profile and leaves the depth fields
\* of the profile handed in as they were
C20_NewProfileInputUntouched ==
    \A k \in DOMAIN sv_calls :
        LET c == sv_calls[k]
            p == c.before
            q == AfterCall(k)
        IN  /\ c.result = "profile"
            /\ Len(q) = Len(p)
            /\ \A i \in DOMAIN p : \A f \in DepthFields : q[i][f] = p[i][f]

\* neither the ice thickness nor the length of the profile is a positive number
NoPositiveAnchor(p) ==
    \A a \in Given(p, "ice_thickness") \cup Given(p, "length") : a <= 0

\* C21, as claimed: a call on a profile that has no positive ice thickness
\* and no positive length, or that carries more than one vertical reference,
\* raises ReferenceError and leaves every depth field as it was, whether or
\* not a reference is asked for
C21_RefusesWithReferenceError ==
    \A k \in DOMAIN sv_calls :
        LET c == sv_calls[k]
            p == c.before
            q == AfterCall(k)
        IN  (NoPositiveAnchor(p) \/ ~UniformTag(p)) =>
                /\ c.result = "ReferenceError"
                /\ Len(q) = Len(p)
                /\ \A i \in DOMAIN p : \A f \in DepthFields : q[i][f] = p[i][f]

\* C29, as claimed: two calls in a row asking for the same reference, both
\* with a zero point of 0, leave the depth fields as the first call left them
C29_IdempotentForFixedTarget ==
    \A k \in DOMAIN sv_calls :
        (k + 1 \in DOMAIN sv_calls) =>
            LET c1 == sv_calls[k]
                c2 == sv_calls[k + 1]
                p  == c2.before
                q  == AfterCall(k + 1)
            IN  (/\ c1.new_v_ref # "None" /\ c2.new_v_ref = c1.new_v_ref
                 /\ c1.h_ref = 0 /\ c2.h_ref = 0
                 /\ c1.result = "None") =>
                    /\ Len(q) = Len(p)
                    /\ \A i \in DOMAIN p : \A f \in DepthFields : q[i][f] = p[i][f]

\* ------------------------------------------------------------------------
\* s_nan at the ends of the profile
\* ------------------------------------------------------------------------
\* C30, as claimed: with fill_gap true, a null value with no known value
\* below it, or none above it, is left null by s_nan
C30_NoFillAtTheEnds ==
    (fill_gap /\ yx # <<>>) =>
        LET src == Src
        IN  \A k \in DOMAIN src :
                (IsNaN(src[k].val) /\ (KnownBelow(src, k) = {} \/ KnownAbove(src, k) = {}))
                    => IsNaN(s_nan(yx, k - 1, fill_gap))

\* ------------------------------------------------------------------------
\* The step sweep
\* ------------------------------------------------------------------------
\* the step path of the variable being processed has raised
StepRaised ==
    /\ pc = "raised"
    /\ yx # <<>>
    /\ vi \in DOMAIN variables
    /\ IsStep(profile, variables[vi])

\* C24, as claimed: the step path of a non-empty step profile never raises,
\* on any resolved grid: no index leaves its array, and when the table is
\* assembled there are as many values as bins
C24_StepNeverRaises ==
    /\ ~StepRaised
    /\ pc = "assemble" => ~StepTableRaises(y_step, x_step)

\* C27, as claimed: no step of the sweep moves a cursor back or ends the
\* sweep by an exception, the source cursor stays on a row of the source,
\* and the sweep is left with the bin cursor on the last edge and one value
\* emitted for each pair of consecutive edges
C27_SweepTerminates ==
    /\ [][pc = "inner" => (ii_bin' >= ii_bin /\ ii_yx' >= ii_yx /\ pc' # "raised")]_vars
    /\ [](pc = "inner" => (ii_yx <= Len(yx) - 1 /\ ii_bin <= Len(y_bins) - 1))
    /\ [](pc = "assemble" =>
             (ii_bin = Len(y_bins) - 1 /\ Len(x_step) = 2 * (Len(y_bins) - 1)))

\* the non-null values of a variable in the profile
KnownValues(p, v) ==
    {RowsOf(p, v)[i].val : i \in {j \in DOMAIN RowsOf(p, v) : ~IsNaN(RowsOf(p, v)[j].val)}}

\* C28, as claimed: every non-null value the step path returns lies between
\* the least and the greatest non-null source value of the variable
C28_ValuesWithinSourceRange ==
    (pc = "done" /\ returned = "discretized_profile") =>
        LET out   == OutRows("salinity")
            known == KnownValues(profile, "salinity")
        IN  \A i \in DOMAIN out :
                ~IsNaN(out[i].val) =>
                    /\ \E a \in known : FLeq(a, out[i].val)
                    /\ \E b \in known : FLeq(out[i].val, b)

\* ------------------------------------------------------------------------
\* Variables without rows
\* ------------------------------------------------------------------------
\* the requested variables no row of the profile carries
Absent == {i \in DOMAIN variables : RowsOf(profile, variables[i]) = <<>>}

\* C25: the step of the loop that meets a requested variable without rows
\* adds no row, raises nothing and goes on to the next variable; a call that
\* returns holds no row of such a variable and holds rows of every requested
\* variable that has rows in the profile
C25_EmptyVariableSkipped ==
    /\ [][(pc = "variable" /\ vi \in Absent)
            => (/\ pc' = "variable"
                /\ err' = err
                /\ vi' = vi + 1
                /\ discretized_profile' = discretized_profile)]_vars
    /\ []((pc = "done" /\ returned = "discretized_profile") =>
             \A i \in DOMAIN variables :
                 (i \in Absent) <=> (OutRows(variables[i]) = <<>>))

\* a call asked for the temperature and the salinity of a profile without
\* temperature has returned the rows of the salinity
C25_Witness ==
    /\ pc = "done"
    /\ returned = "discretized_profile"
    /\ variables = <<"temperature", "salinity">>
    /\ Absent = {1}
    /\ OutRows("temperature") = <<>>
    /\ Len(OutRows("salinity")) >= 2
    /\ \E i \in DOMAIN discretized_profile : ~IsNaN(discretized_profile[i].val)

\* ------------------------------------------------------------------------
\* Refusals
\* ------------------------------------------------------------------------
Monotonic(b) ==
    \/ \A i \in 1..(Len(b) - 1) : b[i] < b[i + 1]
    \/ \A i \in 1..(Len(b) - 1) : b[i] > b[i + 1]
\* fewer than two edges, or edges in no order
Degenerate(b) == Len(b) < 2 \/ ~Monotonic(b)

\* C22, as claimed: a call whose grid comes out of the resolution with
\* fewer than two edges, or with edges that are not monotonic, fails with
\* GridError and goes no further
C22_FailsWithGridError ==
    /\ (/\ pc \notin {"start", "integrity"}
        /\ profile # <<>>
        /\ Resolved.err = "none"
        /\ Degenerate(Resolved.y_bins)) => (pc = "raised" /\ err = "GridError")
    /\ (GridUsed /\ Degenerate(y_bins)) => (pc = "raised" /\ err = "GridError")

\* C23, as claimed: a call asked for a variable the profile does not hold,
\* or made on a grid of fewer than two centers, does not return
C23_FailsWithDiscretizationError ==
    (/\ profile # <<>>
     /\ \/ Absent # {}
        \/ GridUsed /\ Len(y_mid) < 2) =>
        /\ pc # "done"
        /\ pc = "raised" => err = "DiscretizationError"

\* ------------------------------------------------------------------------
\* The source matrix of the sweep
\* ------------------------------------------------------------------------
\* every row has its lower bound in column 0 and its upper bound in column 1
Oriented(m) == \A i \in DOMAIN m : m[i][1] <= m[i][2]
\* the rows are in ascending depth order
Ascending(m) == \A i, j \in DOMAIN m : i < j => (m[i][1] <= m[j][1] /\ m[i][2] <= m[j][2])

\* C26, as claimed: whatever the vertical reference, and whether the rows
\* store the lower bound in y_low or in y_sup, the matrix the sweep runs on is
\* in ascending depth order with the lower bound of every row in column 0
C26_SourceOrientedAscending ==
    yx # <<>> => (Oriented(yx) /\ Ascending(yx))

====
